---- MODULE Spec2Model ----
(***************************************************************************)
(* Model of libsss-rs: the packet header codec (src/src/framing.rs), the   *)
(* user-space Stream interface and StreamPeer (src/src/stream.rs), and the *)
(* Host's datagram path (src/src/host.rs).                                 *)
(*                                                                         *)
(* TLC's integers are 32 bits wide, so a u64 is kept as four 16-bit limbs, *)
(* most significant first: <<l3, l2, l1, l0>> is                           *)
(* l3*2^48 + l2*2^32 + l1*2^16 + l0.                                       *)
(***************************************************************************)
EXTENDS Integers, Sequences, FiniteSets, TLC

VARIABLES
    x,          \* the u64 sequence counter the caller converts
    seq_num,    \* Option<SequenceNumber>: the result of SequenceNumber::from(x)
    version,    \* Option<u16> argument of the last PacketHeader::new
    fec_group,  \* Option<u8> argument of the last PacketHeader::new
    buffer,     \* the caller's byte buffer (the header view aliases it)
    hdr,        \* Option<PacketHeader>: what new returned, or a view over received bytes
    origin,     \* "none" | "new" | "wire": how hdr came to be
    hcall,      \* the last codec operation
    hret,       \* how the last accessor call ended: [outcome, value]
    last,       \* the last Stream call made, or link event delivered
    bound_by,   \* the last of create / connect_to / disconnect the application made
    sret,       \* what the last Stream call returned
    link,       \* the link status the transport last reported: "down" | "up" | "stalled"
    wpos,       \* how many bytes of Text the peer has written so far
    markers,    \* how many record markers the peer has written so far
    rxq,        \* received bytes and record markers waiting to be read, in order
    rxq_before, \* rxq as the last read_data found it
    max_size,   \* the max_size argument of the last read_data
    rdata,      \* the bytes the last read_data returned
    peer_of,    \* the peer each stream is bound to
    priority,   \* each stream's transmit priority level
    pending,    \* how many units of data each stream has ready to transmit
    plast,      \* the last step of the transmit side
    chosen,     \* the stream the last scheduling decision selected
    lookups,    \* coord.lookups: the address lookups pending for the peer
    key_exchanges_initiated, \* the key exchanges pending with the peer
    clast,      \* the last step of the routing coordination
    cret,       \* what the last no_lookups_possible() returned
    all_streams,  \* per peer: all existing streams involving this peer
    usid_streams, \* per peer: the streams that have USIDs, as <<usid, stream>> pairs
    parent,     \* each stream's parent stream, 0 for a top-level or unused one
    children,   \* each stream's set of child substreams
    offers,     \* the streams with an incoming substream waiting for accept_substream
    glast,      \* the last step of the stream bookkeeping
    garg,       \* the stream the last removal was asked to remove, else 0
    listeners,  \* the listener table: registered (service, protocol) -> acceptor queue
    sessions,   \* the peers with a PeerSession entry in the host's registry
    dgram,      \* the size in bytes of the last datagram the transport handed over
    handled,    \* whether Host::handle_request ran for that datagram and a response was sent
    oreq,       \* the (service, protocol) pair and the peer of the last host operation
    oret,       \* how the last host operation ended
    olast,      \* the last host operation
    lstate,     \* the stream control object's lifecycle state
    read_closed,  \* the read direction is closed
    write_closed, \* the write direction is closed
    rbuf,       \* bytes received and waiting to be read
    wbuf,       \* bytes written and waiting to be transmitted
    lfrom,      \* the lifecycle state the last lifecycle step started in
    ldropped,   \* how many buffered bytes the last shutdown discarded
    lmode,      \* the mode argument of the last shutdown, else 0
    llast       \* the last lifecycle step

hvars == <<x, seq_num, version, fec_group, buffer, hdr, origin, hcall, hret>>

svars == <<last, bound_by, sret, link, wpos, markers, rxq, rxq_before, max_size, rdata>>

pvars == <<peer_of, priority, pending, plast, chosen>>

cvars == <<lookups, key_exchanges_initiated, clast, cret>>

gvars == <<all_streams, usid_streams, parent, children, offers, glast, garg>>

ovars == <<listeners, sessions, dgram, handled, oreq, oret, olast>>

lvars == <<lstate, read_closed, write_closed, rbuf, wbuf, lfrom, ldropped, lmode, llast>>

vars == <<hvars, svars, pvars, cvars, gvars, ovars, lvars>>

\* what the codec's operations leave alone, what one Stream's do, and what
\* the transmit scheduler's do
not_codec == <<svars, pvars, cvars, gvars, ovars, lvars>>

not_stream == <<hvars, pvars, cvars, gvars, ovars, lvars>>

not_sched == <<hvars, svars, cvars, gvars, ovars, lvars>>

not_coord == <<hvars, svars, pvars, gvars, ovars, lvars>>

not_tree == <<hvars, svars, pvars, cvars, ovars, lvars>>

not_host == <<hvars, svars, pvars, cvars, gvars, lvars>>

\* what the lifecycle steps leave alone; Stream's own calls keep not_stream
not_life == <<hvars, svars, pvars, cvars, gvars, ovars>>

-----------------------------------------------------------------------------
(* Option<T>: None is the empty tuple, Some(v) the one-element tuple.      *)

None == <<>>

Some(v) == <<v>>

is_some(o) == o # None

-----------------------------------------------------------------------------
(* Bounds and input sets.                                                  *)

\* longest caller buffer tried; the largest header is 1 + 2 + 1 + 8 = 12 bytes
MaxBufLen == 13

\* limb values the counter inputs are built from (4464 = 70000 - 65536; 255
\* is the largest u8)
LimbVals == {0, 1, 255, 4464, 65535}

U64Inputs == {<<a, b, c, d>> : a \in LimbVals, b \in LimbVals, c \in LimbVals, d \in LimbVals}

\* what the caller's buffer holds before the call
FillBytes == {0, 255}

VersionInputs == {None, Some(7), Some(65535)}

FecInputs == {None, Some(3)}

BufferInputs == {[i \in 1..n |-> f] : n \in 0..MaxBufLen, f \in FillBytes}

\* the four width classes, by byte width
WidthClasses == {2, 4, 6, 8}

-----------------------------------------------------------------------------
(* u64 comparison, and the three thresholds of From<u64>.                  *)

\* a < b on u64, limb by limb from the most significant
U64Lt(a, b) ==
    \E i \in 1..4 : a[i] < b[i] /\ \A j \in 1..(i - 1) : a[j] = b[j]

\* 65536
K16 == <<0, 0, 1, 0>>

\* 0x100000000
K32 == <<0, 1, 0, 0>>

\* 0x1000000000000
K48 == <<1, 0, 0, 0>>

\* enum SequenceNumber: the variant (by its byte width) and the value held
Len2(v) == [len |-> 2, val |-> v]

Len4(v) == [len |-> 4, val |-> v]

Len6(v) == [len |-> 6, val |-> v]

Len8(v) == [len |-> 8, val |-> v]

\* from_u64 with the first threshold off by one (<= for <)
from_u64_inclusive(v) ==
    IF U64Lt(v, K16) \/ v = K16 THEN Len2(v)
    ELSE IF U64Lt(v, K32) THEN Len4(v)
    ELSE IF U64Lt(v, K48) THEN Len6(v)
    ELSE Len8(v)

\* impl From<u64> for SequenceNumber
from_u64(v) ==
    IF U64Lt(v, K16) THEN Len2(v)
    ELSE IF U64Lt(v, K32) THEN Len4(v)
    ELSE IF U64Lt(v, K48) THEN Len6(v)
    ELSE Len8(v)

\* a narrower unsigned integer is kept zero-extended in the same four limbs
is_u32(v) == v[1] = 0 /\ v[2] = 0

is_u16(v) == is_u32(v) /\ v[3] = 0

is_u8(v) == is_u16(v) /\ v[4] < 256

\* from_u32 with the threshold off by one (<= for <)
from_u32_inclusive(v) == IF U64Lt(v, K16) \/ v = K16 THEN Len2(v) ELSE Len4(v)

\* impl From<u32> for SequenceNumber
from_u32(v) == IF U64Lt(v, K16) THEN Len2(v) ELSE Len4(v)

\* impl From<u16> for SequenceNumber
from_u16(v) == Len2(v)

\* impl From<u8> for SequenceNumber
from_u8(v) == Len2(v)

-----------------------------------------------------------------------------
(* struct PacketHeader and PacketHeader::new.                              *)

\* struct PacketHeader<'a> { data: &'a [u8] }
PacketHeader(data) == [data |-> data]

\* header_size as new accumulates it
header_size(ver, fec, sn) ==
    1 + (IF is_some(ver) THEN 2 ELSE 0)
      + (IF is_some(fec) THEN 1 ELSE 0)
      + (CASE sn.len = 2 -> 2
           [] sn.len = 4 -> 4
           [] sn.len = 6 -> 6
           [] sn.len = 8 -> 8)

\* `let mut flags = 0u8;` is never updated before it is stored
flags_written(ver, fec, sn) == 0

\* the size test with <= for <: an exactly fitting buffer is refused
too_small_inclusive(buf, ver, fec, sn) == Len(buf) <= header_size(ver, fec, sn)

\* the size test of new: too small a buffer gives None
too_small(buf, ver, fec, sn) == Len(buf) < header_size(ver, fec, sn)

\* the buffer after new: byte 0 is overwritten on success, nothing else is
buffer_after_new(buf, ver, fec, sn) ==
    IF too_small(buf, ver, fec, sn)
    THEN buf
    ELSE [buf EXCEPT ![1] = flags_written(ver, fec, sn)]

\* PacketHeader::new: None, or a view over the whole of the caller's buffer
new(buf, ver, fec, sn) ==
    IF too_small(buf, ver, fec, sn)
    THEN None
    ELSE Some(PacketHeader(buffer_after_new(buf, ver, fec, sn)))

\* how a call ends: it returns a value, or the thread panics
Returned(v) == [outcome |-> "returned", value |-> v]

Panicked == [outcome |-> "panic", value |-> None]

NotCalled == [outcome |-> "none", value |-> None]

\* PacketHeader::version: the stub returns None
version_of(h) == Returned(None)

\* PacketHeader::fec_group: the stub returns None
fec_group_of(h) == Returned(None)

\* PacketHeader::sequence_number: unimplemented!() panics
sequence_number_of(h) == Panicked

-----------------------------------------------------------------------------
(* The wire layout of spec.md section 6, used to build the datagrams a     *)
(* peer may send and to read a header's bytes in the statements below.     *)

\* a u16 as two bytes, big-endian
be16(v) == <<v \div 256, v % 256>>

\* the low `width` bytes of a u64, big-endian
be_bytes(v, width) ==
    LET limbs == SubSeq(v, 5 - (width \div 2), 4)
    IN  [i \in 1..width |->
            IF i % 2 = 1 THEN limbs[(i + 1) \div 2] \div 256
                         ELSE limbs[i \div 2] % 256]

\* flags: bit 0 version present, bit 1 fec_group present, bits 2-3 width class
wire_flags(ver, fec, width) ==
    (IF is_some(ver) THEN 1 ELSE 0) + (IF is_some(fec) THEN 2 ELSE 0)
        + 4 * ((width \div 2) - 1)

\* a header as laid out on the wire, the value carried in a field of `width` bytes
wire_header(ver, fec, width, v) ==
    <<wire_flags(ver, fec, width)>>
        \o (IF is_some(ver) THEN be16(ver[1]) ELSE <<>>)
        \o (IF is_some(fec) THEN <<fec[1]>> ELSE <<>>)
        \o be_bytes(v, width)

\* the value fits a field of `width` bytes
fits(v, width) == \A i \in 1..(4 - (width \div 2)) : v[i] = 0

\* the width class the flags byte declares
declared_width(data) == 2 * (((data[1] \div 4) % 4) + 1)

\* where the sequence number starts (1-based) in the header's bytes
seq_offset(data) ==
    2 + (IF data[1] % 2 = 1 THEN 2 ELSE 0) + (IF (data[1] \div 2) % 2 = 1 THEN 1 ELSE 0)

\* the sequence number the header's bytes carry, as a u64
decoded_value(data) ==
    LET w == declared_width(data)
        o == seq_offset(data)
        nl == w \div 2
    IN  [i \in 1..4 |->
            IF i <= 4 - nl THEN 0
            ELSE LET k == i - (4 - nl)
                 IN  data[o + 2 * (k - 1)] * 256 + data[o + 2 * (k - 1) + 1]]

-----------------------------------------------------------------------------
(* The codec's operations as actions.                                      *)

HInit ==
    /\ x \in U64Inputs
    /\ seq_num = None
    /\ version = None
    /\ fec_group = None
    /\ buffer = <<>>
    /\ hdr = None
    /\ origin = "none"
    /\ hcall = "start"
    /\ hret = NotCalled

\* the caller converts its counter: SequenceNumber::from(x)
From ==
    /\ hcall = "start"
    /\ seq_num' = Some(from_u64(x))
    /\ hcall' = "from"
    /\ UNCHANGED <<x, version, fec_group, buffer, hdr, origin, hret>>
    /\ UNCHANGED not_codec

\* the caller holds its counter as a u32: SequenceNumber::from(x as u32)
FromU32 ==
    /\ hcall = "start"
    /\ is_u32(x)
    /\ seq_num' = Some(from_u32(x))
    /\ hcall' = "from_u32"
    /\ UNCHANGED <<x, version, fec_group, buffer, hdr, origin, hret>>
    /\ UNCHANGED not_codec

\* the caller holds its counter as a u16
FromU16 ==
    /\ hcall = "start"
    /\ is_u16(x)
    /\ seq_num' = Some(from_u16(x))
    /\ hcall' = "from_u16"
    /\ UNCHANGED <<x, version, fec_group, buffer, hdr, origin, hret>>
    /\ UNCHANGED not_codec

\* the caller holds its counter as a u8
FromU8 ==
    /\ hcall = "start"
    /\ is_u8(x)
    /\ seq_num' = Some(from_u8(x))
    /\ hcall' = "from_u8"
    /\ UNCHANGED <<x, version, fec_group, buffer, hdr, origin, hret>>
    /\ UNCHANGED not_codec

\* PacketHeader::new(buf, ver, fec, seq_num)
New ==
    /\ hcall = "from"
    /\ \E buf \in BufferInputs, ver \in VersionInputs, fec \in FecInputs :
        /\ version' = ver
        /\ fec_group' = fec
        /\ buffer' = buffer_after_new(buf, ver, fec, seq_num[1])
        /\ hdr' = new(buf, ver, fec, seq_num[1])
    /\ origin' = "new"
    /\ hcall' = "new"
    /\ UNCHANGED <<x, seq_num, hret>>
    /\ UNCHANGED not_codec

\* a PacketHeader view over the bytes of a received datagram, which carries
\* the peer's counter x in any field wide enough for it
Over ==
    /\ hcall = "start"
    /\ \E ver \in VersionInputs, fec \in FecInputs, w \in WidthClasses :
        /\ fits(x, w)
        /\ buffer' = wire_header(ver, fec, w, x)
        /\ hdr' = Some(PacketHeader(wire_header(ver, fec, w, x)))
    /\ origin' = "wire"
    /\ hcall' = "over"
    /\ UNCHANGED <<x, seq_num, version, fec_group, hret>>
    /\ UNCHANGED not_codec

Callable == is_some(hdr) /\ hret.outcome # "panic"

Version ==
    /\ Callable
    /\ hret' = version_of(hdr[1])
    /\ hcall' = "version"
    /\ UNCHANGED <<x, seq_num, version, fec_group, buffer, hdr, origin>>
    /\ UNCHANGED not_codec

FecGroup ==
    /\ Callable
    /\ hret' = fec_group_of(hdr[1])
    /\ hcall' = "fec_group"
    /\ UNCHANGED <<x, seq_num, version, fec_group, buffer, hdr, origin>>
    /\ UNCHANGED not_codec

SequenceNumber ==
    /\ Callable
    /\ hret' = sequence_number_of(hdr[1])
    /\ hcall' = "sequence_number"
    /\ UNCHANGED <<x, seq_num, version, fec_group, buffer, hdr, origin>>
    /\ UNCHANGED not_codec

HNext ==
    \/ From \/ FromU32 \/ FromU16 \/ FromU8
    \/ New \/ Over \/ Version \/ FecGroup \/ SequenceNumber

-----------------------------------------------------------------------------
(* Statements about the codec.                                             *)

\* the least width class whose field holds v: the limbs above it are zero
MinWidth(v) ==
    IF v[1] # 0 THEN 8 ELSE IF v[2] # 0 THEN 6 ELSE IF v[3] # 0 THEN 4 ELSE 2

\* the header length the layout gives: 1 + 2 (version) + 1 (fec_group) + width
LayoutLen(ver, fec, width) ==
    1 + 2 * (IF is_some(ver) THEN 1 ELSE 0) + (IF is_some(fec) THEN 1 ELSE 0) + width

\* C1: SequenceNumber::from(v: u64) gives the unique minimal width class of
\* v (2 bytes iff v < 2^16, 4 iff 2^16 <= v < 2^32, 6 iff 2^32 <= v < 2^48,
\* 8 iff v >= 2^48) and keeps the value; the five boundary values of the
\* spec land in the classes it names.
C1_WidthSelection ==
    is_some(seq_num) =>
        /\ seq_num[1].len = MinWidth(x)
        /\ seq_num[1].val = x
        /\ (x = <<0, 0, 0, 65535>> => seq_num[1].len = 2)
        /\ (x = <<0, 0, 1, 0>> => seq_num[1].len = 4)
        /\ (x = <<0, 0, 65535, 65535>> => seq_num[1].len = 4)
        /\ (x = <<0, 1, 0, 0>> => seq_num[1].len = 6)
        /\ (x = <<1, 0, 0, 0>> => seq_num[1].len = 8)

\* 65536 has been converted, to the 4-byte class
C1_Witness ==
    is_some(seq_num) /\ x = <<0, 0, 1, 0>> /\ seq_num[1].len = 4

\* C2: PacketHeader::new returns None exactly when the buffer is shorter than
\* 1 + 2 (version present) + 1 (fec_group present) + the width of the
\* sequence number's class, and a header in every other case.
C2_BufferTooSmallIff ==
    origin = "new" =>
        (hdr = None <=> Len(buffer) < LayoutLen(version, fec_group, seq_num[1].len))

\* new has refused a buffer one byte short of a header with both options
C2_Witness ==
    /\ origin = "new"
    /\ hdr = None
    /\ is_some(version)
    /\ is_some(fec_group)
    /\ Len(buffer) + 1 = LayoutLen(version, fec_group, seq_num[1].len)

\* C3: what version(), fec_group() and sequence_number() return on a header
\* built by new is what new was given.
C3_RoundTrip ==
    (origin = "new" /\ is_some(hdr)) =>
        /\ (hcall = "version" => hret = Returned(version))
        /\ (hcall = "fec_group" => hret = Returned(fec_group))
        /\ (hcall = "sequence_number" =>
                hret.outcome = "returned" /\ hret.value = seq_num[1])

\* C4: a header built by new is exactly 1 + 2 (version present) + 1
\* (fec_group present) + width bytes long, however long the buffer was.
C4_HeaderLength ==
    (origin = "new" /\ is_some(hdr)) =>
        Len(hdr[1].data) = LayoutLen(version, fec_group, seq_num[1].len)

\* C5: reading the sequence number of a header whose declared width class is
\* not the minimal class of the value it carries ends in NonMinimalEncoding.
C5_NonMinimalRejected ==
    (/\ is_some(hdr)
     /\ hcall = "sequence_number"
     /\ declared_width(hdr[1].data) # MinWidth(decoded_value(hdr[1].data)))
        => hret.outcome = "NonMinimalEncoding"

-----------------------------------------------------------------------------
(* The Stream interface (src/src/stream.rs). The methods that have a body  *)
(* are modelled from it; read_data, write_data and write_record exist only *)
(* as documented declarations and are modelled from that documentation.    *)

\* the bytes the peer writes, in order
Text == <<"a", "b", "c", "d">>

\* a record marker in the byte stream
Marker == "RM"

\* record markers the peer writes at most
MaxMarkers == 2

\* largest max_size a read is tried with
MaxRead == 4

\* is_connected taken for is_link_up: true while the link is live
is_connected_link == link = "up"

\* Stream::is_connected: the body is `true`
is_connected == TRUE

\* Stream::connect_to: the body is `true`
connect_to == TRUE

\* Stream::bytes_available: the body is `0`
bytes_available == 0

\* Stream::has_bytes_available
has_bytes_available == bytes_available > 0

\* the bytes of q before its first record marker
before_marker(q) ==
    LET stops == {i \in 1..Len(q) : q[i] = Marker}
    IN  IF stops = {} THEN q
        ELSE SubSeq(q, 1, (CHOOSE i \in stops : \A j \in stops : i <= j) - 1)

\* a read that skips record markers instead of stopping at the first one
read_data_across(q, n) ==
    LET bytes == SelectSeq(q, LAMBDA b : b # Marker)
    IN  SubSeq(bytes, 1, IF n < Len(bytes) THEN n ELSE Len(bytes))

\* read_data: the bytes returned, up to max_size of those before the first marker
read_data(q, n) ==
    LET p == before_marker(q)
    IN  SubSeq(p, 1, IF n < Len(p) THEN n ELSE Len(p))

\* what read_data leaves queued: a marker that the read reached is consumed
left_queued(q, n) ==
    LET k == Len(read_data(q, n))
        rest == SubSeq(q, k + 1, Len(q))
    IN  IF rest # <<>> /\ Head(rest) = Marker THEN Tail(rest) ELSE rest

SInit ==
    /\ last = "create"
    /\ bound_by = "create"
    /\ sret = TRUE
    /\ link = "down"
    /\ wpos = 0
    /\ markers = 0
    /\ rxq = <<>>
    /\ rxq_before = <<>>
    /\ max_size = 0
    /\ rdata = <<>>

ConnectTo ==
    /\ last' = "connect_to"
    /\ bound_by' = "connect_to"
    /\ sret' = connect_to
    /\ UNCHANGED <<link, wpos, markers, rxq, rxq_before, max_size, rdata>>
    /\ UNCHANGED not_stream

Disconnect ==
    /\ last' = "disconnect"
    /\ bound_by' = "disconnect"
    /\ UNCHANGED <<sret, link, wpos, markers, rxq, rxq_before, max_size, rdata>>
    /\ UNCHANGED not_stream

IsConnected ==
    /\ last' = "is_connected"
    /\ sret' = is_connected
    /\ UNCHANGED <<bound_by, link, wpos, markers, rxq, rxq_before, max_size, rdata>>
    /\ UNCHANGED not_stream

ConnectAt ==
    /\ last' = "connect_at"
    /\ UNCHANGED <<bound_by, sret, link, wpos, markers, rxq, rxq_before, max_size, rdata>>
    /\ UNCHANGED not_stream

BytesAvailable ==
    /\ last' = "bytes_available"
    /\ sret' = bytes_available
    /\ UNCHANGED <<bound_by, link, wpos, markers, rxq, rxq_before, max_size, rdata>>
    /\ UNCHANGED not_stream

HasBytesAvailable ==
    /\ last' = "has_bytes_available"
    /\ sret' = has_bytes_available
    /\ UNCHANGED <<bound_by, link, wpos, markers, rxq, rxq_before, max_size, rdata>>
    /\ UNCHANGED not_stream

\* on_link_up: connectivity established, at first or after being down or stalled
OnLinkUp ==
    /\ bound_by = "connect_to"
    /\ link # "up"
    /\ link' = "up"
    /\ last' = "on_link_up"
    /\ UNCHANGED <<bound_by, sret, wpos, markers, rxq, rxq_before, max_size, rdata>>
    /\ UNCHANGED not_stream

\* on_link_stalled: the first sign of trouble on a live link
OnLinkStalled ==
    /\ bound_by = "connect_to"
    /\ link = "up"
    /\ link' = "stalled"
    /\ last' = "on_link_stalled"
    /\ UNCHANGED <<bound_by, sret, wpos, markers, rxq, rxq_before, max_size, rdata>>
    /\ UNCHANGED not_stream

\* on_link_down: connectivity lost, or not established
OnLinkDown ==
    /\ bound_by = "connect_to"
    /\ last # "on_link_down"
    /\ link' = "down"
    /\ last' = "on_link_down"
    /\ UNCHANGED <<bound_by, sret, wpos, markers, rxq, rxq_before, max_size, rdata>>
    /\ UNCHANGED not_stream

\* the peer's write_data of the next n bytes of Text, delivered in order
WriteData ==
    /\ \E n \in 1..(Len(Text) - wpos) :
        /\ rxq' = rxq \o SubSeq(Text, wpos + 1, wpos + n)
        /\ wpos' = wpos + n
    /\ last' = "write_data"
    /\ UNCHANGED <<bound_by, sret, link, markers, rxq_before, max_size, rdata>>
    /\ UNCHANGED not_stream

\* the peer's write_record of the next n bytes (n may be 0), then a record marker
WriteRecord ==
    /\ markers < MaxMarkers
    /\ \E n \in 0..(Len(Text) - wpos) :
        /\ rxq' = (rxq \o SubSeq(Text, wpos + 1, wpos + n)) \o <<Marker>>
        /\ wpos' = wpos + n
    /\ markers' = markers + 1
    /\ last' = "write_record"
    /\ UNCHANGED <<bound_by, sret, link, rxq_before, max_size, rdata>>
    /\ UNCHANGED not_stream

\* read_data(max_size), the overload that returns the bytes read
ReadData ==
    /\ \E n \in 1..MaxRead :
        /\ max_size' = n
        /\ rdata' = read_data(rxq, n)
        /\ rxq' = left_queued(rxq, n)
    /\ rxq_before' = rxq
    /\ last' = "read_data"
    /\ UNCHANGED <<bound_by, sret, link, wpos, markers>>
    /\ UNCHANGED not_stream

SNext ==
    \/ ConnectTo \/ Disconnect \/ IsConnected \/ ConnectAt
    \/ BytesAvailable \/ HasBytesAvailable
    \/ OnLinkUp \/ OnLinkStalled \/ OnLinkDown
    \/ WriteData \/ WriteRecord \/ ReadData

-----------------------------------------------------------------------------
(* Transmit priorities. set_priority and current_priority exist only as    *)
(* documented declarations; the scheduling rule is the one their           *)
(* documentation states: strict preference to the higher priority among    *)
(* the streams with data ready for the same remote host.                   *)

Streams == {"A", "B", "C"}

Peers == {"P", "Q"}

\* highest priority level tried
MaxPriority == 2

\* most units of data a stream has ready at once
MaxPending == 2

\* current_priority
current_priority(s) == priority[s]

\* the streams bound to peer p with data ready to transmit
ready(p) == {s \in Streams : peer_of[s] = p /\ pending[s] > 0}

\* a scheduler that ignores the priority levels
eligible_any(p) == ready(p)

\* the streams the scheduler may serve next for peer p: the ready ones that no
\* ready stream outranks (streams of equal priority share, in any order)
eligible(p) ==
    {s \in ready(p) : \A t \in ready(p) : current_priority(t) <= current_priority(s)}

PInit ==
    /\ peer_of \in [Streams -> Peers]
    /\ priority = [s \in Streams |-> 0]
    /\ pending = [s \in Streams |-> 0]
    /\ plast = "create"
    /\ chosen = "none"

\* set_priority(priority) on stream s
SetPriority ==
    /\ \E s \in Streams, v \in 0..MaxPriority :
        /\ v # priority[s]
        /\ priority' = [priority EXCEPT ![s] = v]
    /\ plast' = "set_priority"
    /\ UNCHANGED <<peer_of, pending, chosen>>
    /\ UNCHANGED not_sched

\* the application's write_data on stream s: one more unit queued to transmit
QueueData ==
    /\ \E s \in Streams :
        /\ pending[s] < MaxPending
        /\ pending' = [pending EXCEPT ![s] = @ + 1]
    /\ plast' = "write_data"
    /\ UNCHANGED <<peer_of, priority, chosen>>
    /\ UNCHANGED not_sched

\* one scheduling decision for a peer: a unit of the selected stream is framed
Schedule ==
    /\ \E p \in Peers : \E s \in eligible(p) :
        /\ chosen' = s
        /\ pending' = [pending EXCEPT ![s] = @ - 1]
    /\ plast' = "schedule"
    /\ UNCHANGED <<peer_of, priority>>
    /\ UNCHANGED not_sched

PNext == SetPriority \/ QueueData \/ Schedule

\* the transmit side at rest, for the specifications that do not exercise it
PIdle == PInit /\ peer_of = [s \in Streams |-> "P"]

-----------------------------------------------------------------------------
(* StreamPeer's routing coordination. no_lookups_possible has a body; the  *)
(* steps that start and finish lookups and key exchanges belong to the     *)
(* routing and key-exchange collaborators.                                 *)

\* endpoints an address lookup can be pending for, and as many key exchanges
MaxLookups == 3

\* no_lookups_possible with || for &&
no_lookups_possible_either == lookups = {} \/ key_exchanges_initiated = {}

\* StreamPeer::no_lookups_possible
no_lookups_possible == lookups = {} /\ key_exchanges_initiated = {}

CInit ==
    /\ lookups = {}
    /\ key_exchanges_initiated = {}
    /\ clast = "create"
    /\ cret = TRUE

\* the routing collaborator starts looking up the peer at one more endpoint
LookupStarted ==
    /\ \E e \in (1..MaxLookups) \ lookups : lookups' = lookups \cup {e}
    /\ clast' = "lookup_started"
    /\ UNCHANGED <<key_exchanges_initiated, cret>>
    /\ UNCHANGED not_coord

\* a pending lookup ends
LookupDone ==
    /\ \E e \in lookups : lookups' = lookups \ {e}
    /\ clast' = "lookup_done"
    /\ UNCHANGED <<key_exchanges_initiated, cret>>
    /\ UNCHANGED not_coord

\* a key exchange with the peer is initiated
KeyExchangeInitiated ==
    /\ \E k \in (1..MaxLookups) \ key_exchanges_initiated :
        key_exchanges_initiated' = key_exchanges_initiated \cup {k}
    /\ clast' = "key_exchange_initiated"
    /\ UNCHANGED <<lookups, cret>>
    /\ UNCHANGED not_coord

\* a pending key exchange ends
KeyExchangeDone ==
    /\ \E k \in key_exchanges_initiated :
        key_exchanges_initiated' = key_exchanges_initiated \ {k}
    /\ clast' = "key_exchange_done"
    /\ UNCHANGED <<lookups, cret>>
    /\ UNCHANGED not_coord

NoLookupsPossible ==
    /\ cret' = no_lookups_possible
    /\ clast' = "no_lookups_possible"
    /\ UNCHANGED <<lookups, key_exchanges_initiated>>
    /\ UNCHANGED not_coord

CNext ==
    \/ LookupStarted \/ LookupDone
    \/ KeyExchangeInitiated \/ KeyExchangeDone
    \/ NoLookupsPossible

\* C15: no_lookups_possible() returns true exactly when the pending lookups
\* and the pending key exchanges are both empty, false when either is not.
C15_NoLookupsPossible ==
    clast = "no_lookups_possible" =>
        /\ (Cardinality(lookups) + Cardinality(key_exchanges_initiated) = 0 => cret = TRUE)
        /\ (Cardinality(lookups) > 0 => cret = FALSE)
        /\ (Cardinality(key_exchanges_initiated) > 0 => cret = FALSE)

\* it has returned false with a key exchange pending and no lookup
C15_Witness ==
    /\ clast = "no_lookups_possible"
    /\ lookups = {}
    /\ key_exchanges_initiated # {}
    /\ cret = FALSE

-----------------------------------------------------------------------------
(* StreamPeer's stream set and USID index, and the substream tree. The     *)
(* struct has the two collections; open_substream and accept_substream are *)
(* documented declarations, and insertion and removal are described in     *)
(* spec.md sections 3, 4.3 and 4.4 only.                                   *)

\* stream slots of the arena
MaxStreams == 3

StreamIds == 1..MaxStreams

\* the streams that exist, in any session
live == UNION {all_streams[p] : p \in Peers}

\* the session a live stream belongs to
session_of(s) == CHOOSE p \in Peers : s \in all_streams[p]

\* the least free slot
fresh_stream == CHOOSE i \in StreamIds \ live : \A j \in StreamIds \ live : i <= j

\* the USID a stream gets: unique, and its own for as long as it exists
usid_for(c) == c

\* a removal that detaches the stream alone and leaves its substreams
subtree_shallow(s) == {s}

\* s and all its descendants, down the child sets
RECURSIVE subtree(_)
subtree(s) == {s} \cup UNION {subtree(c) : c \in children[s]}

GInit ==
    /\ all_streams = [p \in Peers |-> {}]
    /\ usid_streams = [p \in Peers |-> {}]
    /\ parent = [i \in StreamIds |-> 0]
    /\ children = [i \in StreamIds |-> {}]
    /\ offers = {}
    /\ glast = "create"
    /\ garg = 0

\* stream c joins session p, under parent stream q (0: top-level), with or
\* without a USID; the set and the index are updated in the one step
insert(p, c, q, with_usid) ==
    /\ all_streams' = [all_streams EXCEPT ![p] = @ \cup {c}]
    /\ usid_streams' =
            IF with_usid
            THEN [usid_streams EXCEPT ![p] = @ \cup {<<usid_for(c), c>>}]
            ELSE usid_streams
    /\ parent' = [parent EXCEPT ![c] = q]
    /\ children' = IF q = 0 THEN children ELSE [children EXCEPT ![q] = @ \cup {c}]
    /\ garg' = 0

\* a top-level stream to peer p is established (connect_to, or an accepted
\* inbound stream)
InsertStream ==
    /\ live # StreamIds
    /\ \E p \in Peers, w \in BOOLEAN : insert(p, fresh_stream, 0, w)
    /\ glast' = "insert"
    /\ UNCHANGED offers
    /\ UNCHANGED not_tree

\* open_substream() on stream q
OpenSubstream ==
    /\ live # StreamIds
    /\ \E q \in live, w \in BOOLEAN : insert(session_of(q), fresh_stream, q, w)
    /\ glast' = "open_substream"
    /\ UNCHANGED offers
    /\ UNCHANGED not_tree

\* the peer initiates a substream of q, which queues it (one at a time)
SubstreamOffered ==
    /\ \E q \in live \ offers :
        /\ offers' = offers \cup {q}
        /\ garg' = 0
    /\ glast' = "on_new_substream"
    /\ UNCHANGED <<all_streams, usid_streams, parent, children>>
    /\ UNCHANGED not_tree

\* accept_substream() on stream q with an incoming substream waiting
AcceptSubstream ==
    /\ live # StreamIds
    /\ \E q \in offers, w \in BOOLEAN :
        /\ offers' = offers \ {q}
        /\ insert(session_of(q), fresh_stream, q, w)
    /\ glast' = "accept_substream"
    /\ UNCHANGED not_tree

\* stream s is removed from its session, with its whole subtree
RemoveStream ==
    /\ \E s \in live :
        LET gone == subtree(s)
        IN  /\ all_streams' = [p \in Peers |-> all_streams[p] \ gone]
            /\ usid_streams' =
                    [p \in Peers |-> {e \in usid_streams[p] : e[2] \notin gone}]
            /\ parent' = [i \in StreamIds |-> IF i \in gone THEN 0 ELSE parent[i]]
            /\ children' =
                    [i \in StreamIds |-> IF i \in gone THEN {} ELSE children[i] \ gone]
            /\ offers' = offers \ gone
            /\ garg' = s
    /\ glast' = "remove"
    /\ UNCHANGED not_tree

GNext ==
    \/ InsertStream \/ OpenSubstream \/ SubstreamOffered
    \/ AcceptSubstream \/ RemoveStream

\* the ancestors of stream d, up the parent links (at most n of them)
RECURSIVE ancestors(_, _)
ancestors(d, n) ==
    IF n = 0 \/ parent[d] = 0 THEN {}
    ELSE {parent[d]} \cup ancestors(parent[d], n - 1)

\* C11, the tree: every child of an existing stream exists, has that stream
\* as its parent and is in the same session and no other; the USID index
\* names only streams of its own session.
TreeInvariant ==
    /\ \A p \in Peers : \A s \in all_streams[p] : \A c \in children[s] :
            /\ parent[c] = s
            /\ c \in all_streams[p]
            /\ \A o \in Peers \ {p} : c \notin all_streams[o]
    /\ \A p \in Peers : \A e \in usid_streams[p] : e[2] \in all_streams[p]

\* C11, removal: the stream removed and every stream that had it among its
\* ancestors are afterwards in no stream set and no USID index.
RemovalDetaches ==
    glast' = "remove" =>
        \A d \in StreamIds :
            (d = garg' \/ (d \in live /\ garg' \in ancestors(d, MaxStreams))) =>
                \A p \in Peers :
                    /\ d \notin all_streams'[p]
                    /\ \A e \in usid_streams'[p] : e[2] # d

\* C11: after any sequence of open_substream, accept_substream, insertion
\* and removal the tree invariant holds, and a removal detaches the whole
\* subtree of the stream removed.
C11_SubstreamTree == []TreeInvariant /\ [][RemovalDetaches]_vars

\* a stream with a substream that has a substream of its own, all indexed, exists
C11_Witness ==
    \E a \in live : \E b \in children[a] : \E c \in children[b] :
        /\ glast = "accept_substream"
        /\ \E e \in usid_streams[session_of(a)] : e[2] = c

-----------------------------------------------------------------------------
(* Host: the datagram path of register_socket and handle_request           *)
(* (src/src/host.rs). Handler has no implementation in the repository and  *)
(* the server is a documentation comment (src/src/server.rs): the listener *)
(* table is taken from their description.                                  *)

MIN_PACKET_SIZE == 64

MAX_PACKET_SIZE == 1280

\* the sizes of the datagrams the transport hands over: on each side of both limits
DatagramSizes ==
    {0, MIN_PACKET_SIZE - 1, MIN_PACKET_SIZE, MAX_PACKET_SIZE, MAX_PACKET_SIZE + 1}

\* (service, protocol) pairs: two protocols under one service
Pairs == {<<"Web", "HTTP/1.1">>, <<"Web", "Gopher">>}

\* the longest acceptor queue explored
MaxQueue == 2

\* the table ls with an acceptor queue for pair, unchanged if it has one
with_queue(ls, pair) ==
    [q \in DOMAIN ls \cup {pair} |-> IF q \in DOMAIN ls THEN ls[q] ELSE <<>>]

\* a handler that creates the acceptor queue when the pair has none
handle_connect_on_demand(pair, peer) ==
    [listeners |-> [with_queue(listeners, pair) EXCEPT ![pair] = Append(@, peer)],
     sessions  |-> sessions \cup {peer},
     response  |-> "queued"]

\* the handler's answer to a top-level connect request of peer for pair
handle_connect(pair, peer) ==
    IF pair \in DOMAIN listeners
    THEN [listeners |-> [listeners EXCEPT ![pair] = Append(@, peer)],
          sessions  |-> sessions \cup {peer},
          response  |-> "queued"]
    ELSE [listeners |-> listeners,
          sessions  |-> sessions,
          response  |-> "rejected"]

OInit ==
    /\ listeners = [q \in {} |-> <<>>]
    /\ sessions = {}
    /\ dgram = 0
    /\ handled = FALSE
    /\ oreq = [pair |-> <<"Web", "HTTP/1.1">>, peer |-> "P"]
    /\ oret = "none"
    /\ olast = "new"

\* the application starts listening for a (service, protocol) pair
Listen ==
    /\ \E pair \in Pairs :
        /\ listeners' = with_queue(listeners, pair)
        /\ oreq' = [pair |-> pair, peer |-> oreq.peer]
    /\ oret' = "listening"
    /\ olast' = "listen"
    /\ UNCHANGED <<sessions, dgram, handled>>
    /\ UNCHANGED not_host

\* the application accepts the oldest queued connection of a pair
Accept ==
    /\ \E pair \in DOMAIN listeners :
        /\ listeners[pair] # <<>>
        /\ listeners' = [listeners EXCEPT ![pair] = Tail(@)]
        /\ oreq' = [pair |-> pair, peer |-> Head(listeners[pair])]
    /\ oret' = "accepted"
    /\ olast' = "accept"
    /\ UNCHANGED <<sessions, dgram, handled>>
    /\ UNCHANGED not_host

\* one item of register_socket's request stream: the closure hands every
\* request to Host::handle_request, which asks the handler and sends its
\* response
HandleRequest ==
    /\ \E n \in DatagramSizes : \E pair \in Pairs : \E peer \in Peers :
        /\ pair \in DOMAIN listeners => Len(listeners[pair]) < MaxQueue
        /\ dgram' = n
        /\ oreq' = [pair |-> pair, peer |-> peer]
        /\ LET response == handle_connect(pair, peer) IN
            /\ listeners' = response.listeners
            /\ sessions' = response.sessions
            /\ oret' = response.response
    /\ handled' = TRUE
    /\ olast' = "handle_request"
    /\ UNCHANGED not_host

ONext == Listen \/ Accept \/ HandleRequest

\* the connections waiting for accept(), as <<pair, position, peer>>
acceptable(ls) == UNION {{<<q, i, ls[q][i]>> : i \in 1..Len(ls[q])} : q \in DOMAIN ls}

\* C12, one step: a connect request for a pair with no listener is rejected
\* and leaves the table, the connections available to accept() and the
\* PeerSession registry as they were; one for a registered pair is appended
\* to that pair's acceptor queue.
ConnectHandled ==
    olast' = "handle_request" =>
        IF oreq'.pair \in DOMAIN listeners
        THEN /\ oret' = "queued"
             /\ listeners'[oreq'.pair] = Append(listeners[oreq'.pair], oreq'.peer)
        ELSE /\ oret' = "rejected"
             /\ DOMAIN listeners' = DOMAIN listeners
             /\ acceptable(listeners') = acceptable(listeners)
             /\ sessions' = sessions

\* C12: a host with no listener registered for a (service, protocol) pair
\* rejects an inbound top-level connect request for it, creating no acceptor
\* queue, nothing to accept() and no PeerSession entry; a request for a
\* registered pair is queued for accept().
C12_UnregisteredRejected == [][ConnectHandled]_vars

\* a request for ("Web","HTTP/1.1") has been rejected while the other pair
\* was registered
C12_Witness ==
    /\ olast = "handle_request"
    /\ oret = "rejected"
    /\ oreq.pair = <<"Web", "HTTP/1.1">>
    /\ DOMAIN listeners = {<<"Web", "Gopher">>}
    /\ sessions = {}

\* C14: a datagram below MIN_PACKET_SIZE or above MAX_PACKET_SIZE bytes is
\* rejected before any request handling; one of 64 to 1280 bytes is passed on.
C14_SizeChecked ==
    olast = "handle_request" =>
        (handled <=> (MIN_PACKET_SIZE <= dgram /\ dgram <= MAX_PACKET_SIZE))

-----------------------------------------------------------------------------
(* The lifecycle of the stream control object behind a Stream. shutdown    *)
(* and close are documented declarations in src/src/stream.rs; the states  *)
(* are those of the specification's stream state machine. connect_to and   *)
(* disconnect are the bodies the source has (ConnectTo, Disconnect above). *)

\* the most bytes buffered in one direction
MaxBuffered == 2

LifeStates ==
    {"Unconnected", "Connecting", "Connected",
     "ReadClosed", "WriteClosed", "Closed", "Reset"}

\* enum ShutdownMode
ShutdownMode == [Read |-> 1, Write |-> 2, Close |-> 3, Reset |-> 4]

closes_read(mode) == mode \in {ShutdownMode.Read, ShutdownMode.Close}

closes_write(mode) == mode \in {ShutdownMode.Write, ShutdownMode.Close}

\* the states of a stream whose connection has been established
established == {"Connected", "ReadClosed", "WriteClosed", "Closed"}

\* state_for with Closed as soon as either direction is closed
state_for_either(rc, wc) == IF rc \/ wc THEN "Closed" ELSE "Connected"

\* the state of an established stream with the given directions closed
state_for(rc, wc) ==
    IF rc /\ wc THEN "Closed"
    ELSE IF rc THEN "ReadClosed"
    ELSE IF wc THEN "WriteClosed"
    ELSE "Connected"

\* shutdown(mode): what it makes of the current state
shutdown(mode) ==
    IF lstate = "Reset"
    THEN [lstate |-> lstate, read_closed |-> read_closed,
          write_closed |-> write_closed, rbuf |-> rbuf, wbuf |-> wbuf]
    ELSE IF mode = ShutdownMode.Reset
    THEN [lstate |-> "Reset", read_closed |-> read_closed,
          write_closed |-> write_closed, rbuf |-> 0, wbuf |-> 0]
    ELSE IF lstate \in established
    THEN LET rc == read_closed \/ closes_read(mode)
             wc == write_closed \/ closes_write(mode)
         IN  [lstate |-> state_for(rc, wc), read_closed |-> rc,
              write_closed |-> wc,
              rbuf |-> IF closes_read(mode) THEN 0 ELSE rbuf,
              wbuf |-> wbuf]
    ELSE [lstate |-> lstate, read_closed |-> read_closed,
          write_closed |-> write_closed, rbuf |-> rbuf, wbuf |-> wbuf]

LInit ==
    /\ lstate = "Unconnected"
    /\ read_closed = FALSE
    /\ write_closed = FALSE
    /\ rbuf = 0
    /\ wbuf = 0
    /\ lfrom = "Unconnected"
    /\ ldropped = 0
    /\ lmode = 0
    /\ llast = "create"

\* the control object starts connecting to the peer
BeginConnect ==
    /\ lstate = "Unconnected"
    /\ lstate' = "Connecting"
    /\ lfrom' = lstate
    /\ llast' = "begin_connect"
    /\ ldropped' = 0
    /\ lmode' = 0
    /\ UNCHANGED <<read_closed, write_closed, rbuf, wbuf>>
    /\ UNCHANGED not_life

\* the connection to the peer is established
Established ==
    /\ lstate = "Connecting"
    /\ lstate' = "Connected"
    /\ lfrom' = lstate
    /\ llast' = "established"
    /\ ldropped' = 0
    /\ lmode' = 0
    /\ UNCHANGED <<read_closed, write_closed, rbuf, wbuf>>
    /\ UNCHANGED not_life

\* the application writes a byte; before the connection is established it
\* is queued locally
Write ==
    /\ lstate \in {"Connecting", "Connected", "ReadClosed"}
    /\ ~write_closed
    /\ wbuf < MaxBuffered
    /\ wbuf' = wbuf + 1
    /\ lfrom' = lstate
    /\ llast' = "write"
    /\ ldropped' = 0
    /\ lmode' = 0
    /\ UNCHANGED <<lstate, read_closed, write_closed, rbuf>>
    /\ UNCHANGED not_life

\* a buffered written byte is sent; this goes on after a graceful close
Transmit ==
    /\ lstate \in established
    /\ wbuf > 0
    /\ wbuf' = wbuf - 1
    /\ lfrom' = lstate
    /\ llast' = "transmit"
    /\ ldropped' = 0
    /\ lmode' = 0
    /\ UNCHANGED <<lstate, read_closed, write_closed, rbuf>>
    /\ UNCHANGED not_life

\* a byte arrives from the peer
Receive ==
    /\ lstate \in {"Connected", "WriteClosed"}
    /\ ~read_closed
    /\ rbuf < MaxBuffered
    /\ rbuf' = rbuf + 1
    /\ lfrom' = lstate
    /\ llast' = "receive"
    /\ ldropped' = 0
    /\ lmode' = 0
    /\ UNCHANGED <<lstate, read_closed, write_closed, wbuf>>
    /\ UNCHANGED not_life

\* the application reads a buffered byte
Read ==
    /\ rbuf > 0
    /\ rbuf' = rbuf - 1
    /\ lfrom' = lstate
    /\ llast' = "read"
    /\ ldropped' = 0
    /\ lmode' = 0
    /\ UNCHANGED <<lstate, read_closed, write_closed, wbuf>>
    /\ UNCHANGED not_life

\* the peer's end-of-stream marker is received
EndOfStream ==
    /\ lstate \in {"Connected", "WriteClosed"}
    /\ ~read_closed
    /\ read_closed' = TRUE
    /\ lstate' = state_for(TRUE, write_closed)
    /\ lfrom' = lstate
    /\ llast' = "end_of_stream"
    /\ ldropped' = 0
    /\ lmode' = 0
    /\ UNCHANGED <<write_closed, rbuf, wbuf>>
    /\ UNCHANGED not_life

\* shutdown(mode); close() is shutdown(close)
Shutdown(mode) ==
    /\ LET after == shutdown(mode) IN
        /\ lstate' = after.lstate
        /\ read_closed' = after.read_closed
        /\ write_closed' = after.write_closed
        /\ rbuf' = after.rbuf
        /\ wbuf' = after.wbuf
        /\ ldropped' = (rbuf - after.rbuf) + (wbuf - after.wbuf)
    /\ lfrom' = lstate
    /\ lmode' = mode
    /\ llast' = "shutdown"
    /\ UNCHANGED not_life

LNext ==
    \/ BeginConnect \/ Established
    \/ Write \/ Transmit \/ Receive \/ Read \/ EndOfStream
    \/ \E mode \in {ShutdownMode.Read, ShutdownMode.Write,
                     ShutdownMode.Close, ShutdownMode.Reset} : Shutdown(mode)
    \/ ConnectTo \/ Disconnect

\* C13, reachability: shutdown(Reset) can be called and ends in Reset
ResetPossible ==
    lstate # "Reset" => ENABLED (Shutdown(ShutdownMode.Reset) /\ lstate' = "Reset")

\* C13, Closed: both directions are closed
ClosedBothWays == lstate = "Closed" => (read_closed /\ write_closed)

\* C13, one step: shutdown(Reset) outside Reset enters Reset with both
\* buffers empty, and no step leaves Reset
ResetStep ==
    /\ (lstate # "Reset" /\ llast' = "shutdown" /\ lmode' = ShutdownMode.Reset) =>
            (lstate' = "Reset" /\ rbuf' = 0 /\ wbuf' = 0)
    /\ lstate = "Reset" => lstate' = "Reset"

-----------------------------------------------------------------------------
(* Statements about one Stream.                                            *)

\* a is a prefix of b
IsPrefix(a, b) == Len(a) <= Len(b) /\ SubSeq(b, 1, Len(a)) = a

\* C6: once the application has called connect_to (on a fresh, a disconnected
\* or an already connected stream), is_connected() is true, whatever link
\* events have or have not been delivered.
C6_ConnectedAfterConnectTo ==
    bound_by = "connect_to" =>
        /\ is_connected
        /\ (last = "is_connected" => sret = TRUE)

\* is_connected() has returned true after connect_to with the link still down
C6_Witness ==
    /\ bound_by = "connect_to"
    /\ link = "down"
    /\ last = "is_connected"
    /\ sret = TRUE

\* C7: on a stream that was never connected, or whose last connect_to was
\* followed by disconnect, is_connected() returns false.
C7_UnconnectedAfterDisconnect ==
    (last = "is_connected" /\ bound_by \in {"create", "disconnect"}) => sret = FALSE

\* C8: no step other than connect_to and disconnect (link events, connect_at,
\* bytes_available, reads, writes) changes what is_connected() returns.
C8_OnlyConnectAndDisconnectChange ==
    [][last' \notin {"connect_to", "disconnect"} => is_connected' = is_connected]_vars

\* the link of a connected stream has gone up and down again
C8_Witness ==
    /\ bound_by = "connect_to"
    /\ last = "on_link_down"
    /\ is_connected

\* C9: one read_data returns no record marker and at most max_size of the
\* bytes before the first marker, and leaves everything else queued in
\* order; of "ab", marker, "cd" a read with max_size >= 4 returns "ab" and
\* leaves "cd", which the next such read returns.
C9_ReadStopsAtMarker ==
    last = "read_data" =>
        /\ \A i \in 1..Len(rdata) : rdata[i] # Marker
        /\ Len(rdata) <= max_size
        /\ IsPrefix(rdata, rxq_before)
        /\ Len(rdata) < Len(rxq_before) =>
                \/ rxq = SubSeq(rxq_before, Len(rdata) + 1, Len(rxq_before))
                \/ /\ rxq_before[Len(rdata) + 1] = Marker
                   /\ rxq = SubSeq(rxq_before, Len(rdata) + 2, Len(rxq_before))
        /\ Len(rdata) = Len(rxq_before) => rxq = <<>>
        /\ (rxq_before = <<"a", "b", Marker, "c", "d">> /\ max_size >= 4) =>
                rdata = <<"a", "b">> /\ rxq = <<"c", "d">>
        /\ (rxq_before = <<"c", "d">> /\ max_size >= 4) =>
                rdata = <<"c", "d">> /\ rxq = <<>>

\* "ab", marker, "cd" was queued and a read with max_size 4 returned "ab"
C9_Witness ==
    /\ last = "read_data"
    /\ rxq_before = <<"a", "b", Marker, "c", "d">>
    /\ max_size = 4
    /\ rdata = <<"a", "b">>
    /\ rxq = <<"c", "d">>

-----------------------------------------------------------------------------
(* Statements about the transmit scheduler.                                *)

\* C10: a scheduling decision never selects a stream while another stream
\* bound to the same peer has data ready and a strictly higher priority, the
\* priorities being those in force when the decision is made (so the latest
\* set_priority counts); with A at 2 and B at 1 on one peer, B is not
\* selected while A has data ready.
C10_StrictPriority ==
    [][plast' = "schedule" =>
        /\ \A t \in Streams :
                (peer_of[t] = peer_of[chosen'] /\ pending[t] > 0)
                    => priority[t] <= priority[chosen']
        /\ (/\ peer_of["A"] = peer_of["B"]
            /\ priority["A"] = 2
            /\ priority["B"] = 1
            /\ pending["A"] > 0) => chosen' # "B"]_vars

\* A (priority 2) was selected while B (priority 1, same peer) had data ready
C10_Witness ==
    /\ plast = "schedule"
    /\ chosen = "A"
    /\ peer_of["A"] = peer_of["B"]
    /\ priority["A"] = 2
    /\ priority["B"] = 1
    /\ pending["B"] > 0

-----------------------------------------------------------------------------
(* Specifications: the codec, one Stream, and the transmit scheduler.      *)

\* the codec at rest, for the specifications that do not exercise it
HIdle == HInit /\ x = <<0, 0, 0, 0>>

\* C16: on success new leaves in the buffer the flags byte (bit 0 version
\* present, bit 1 fec_group present, bits 2-3 the width class), then the
\* version big-endian if present, the fec_group if present, and the sequence
\* number big-endian in its width.
C16_WireLayout ==
    (origin = "new" /\ is_some(hdr)) =>
        SubSeq(hdr[1].data, 1, LayoutLen(version, fec_group, seq_num[1].len))
            = wire_header(version, fec_group, seq_num[1].len, seq_num[1].val)

\* C17: SequenceNumber::from at u32, u16 or u8 gives the variant and the
\* value that from at u64 gives for the same number: u8 and u16 always the
\* 2-byte class, u32 the 2-byte class iff x < 65536 and else the 4-byte one.
C17_NarrowAgreesWithU64 ==
    (hcall \in {"from_u32", "from_u16", "from_u8"}) =>
        /\ seq_num[1] = from_u64(x)
        /\ seq_num[1].val = x
        /\ (hcall \in {"from_u16", "from_u8"} => seq_num[1].len = 2)
        /\ (hcall = "from_u32" =>
                seq_num[1].len = (IF x[3] = 0 THEN 2 ELSE 4))

\* 70000 held as a u32 has been converted, to the 4-byte class
C17_Witness ==
    /\ hcall = "from_u32"
    /\ x = <<0, 0, 1, 4464>>
    /\ seq_num[1].len = 4

Init == HInit /\ SInit /\ PIdle /\ CInit /\ GInit /\ OInit /\ LInit

Next == HNext

Spec == Init /\ [][Next]_vars

StreamInit == HIdle /\ SInit /\ PIdle /\ CInit /\ GInit /\ OInit /\ LInit

SpecStream == StreamInit /\ [][SNext]_vars

SchedInit == HIdle /\ SInit /\ PInit /\ CInit /\ GInit /\ OInit /\ LInit

SpecSched == SchedInit /\ [][PNext]_vars

CoordInit == HIdle /\ SInit /\ PIdle /\ CInit /\ GInit /\ OInit /\ LInit

SpecCoord == CoordInit /\ [][CNext]_vars

TreeInit == HIdle /\ SInit /\ PIdle /\ CInit /\ GInit /\ OInit /\ LInit

SpecTree == TreeInit /\ [][GNext]_vars

HostInit == HIdle /\ SInit /\ PIdle /\ CInit /\ GInit /\ OInit /\ LInit

SpecHost == HostInit /\ [][ONext]_vars

LifeInit == HIdle /\ SInit /\ PIdle /\ CInit /\ GInit /\ OInit /\ LInit

SpecLife == LifeInit /\ [][LNext]_vars

====
